---- MODULE Spec2Model ----
(***************************************************************************)
(* Model of chest_form_api_endstone/chest_form.py: a fake chest UI that is *)
(* shown to a player by forged block / container packets, with a process-  *)
(* wide registry (ChestFormCallbackHandler.runtime_forms) of the forms     *)
(* that are currently open, and two packet handlers that tear it down.     *)
(***************************************************************************)
EXTENDS Integers, Sequences, FiniteSets, TLC

VARIABLES
    forms,          \* form id -> ChestForm object (title, large_chest, ui_items, call_backs)
    runtime_forms,  \* ChestFormCallbackHandler.runtime_forms, as a set of (uuid, data) items
    tasks,          \* the scheduler's pending delayed tasks, in the order they will run
    trace,          \* per player: packets sent to the player and callbacks run for the player, in order
    last,           \* the operation performed by the last step, with a digest of its input
    nconfig,        \* number of configuration calls made so far
    npresent        \* number of send_to calls made so far

vars == <<forms, runtime_forms, tasks, trace, last, nconfig, npresent>>

----------------------------------------------------------------------------
(* Bounds of the model *)

MaxConfig == 1
MaxPresent == 1
MaxPresentAgain == 2
MaxFormCalls == 2
MaxRequests == 2
MaxActions == 2

----------------------------------------------------------------------------
(* Program constants *)

ReservedContainerId == 114
ChestRuntimeId == 741882976
OpenDelay == 10
CallbackDelay == 2
ChestSlots == 27
ReservedSlots == 54
OverworldCeiling == 319
NetherCeiling == 127
TheEndCeiling == 255
UpOffset == 4
DownOffset == 3

None == "None"

Players == {"P", "Q"}
Forms == {"F1", "F2"}
Callbacks == {"cbA", "cbB"}
Titles == {"ChestUI", "Shop"}

----------------------------------------------------------------------------
(* Python dict, as a function with a growing domain *)

EmptyDict == [k \in {} |-> None]

(* d[k] = v: the item for k is replaced, or added *)
DictPut(d, k, v) == (k :> v) @@ d

(* rapidnbt scalar tags keep their width *)
ByteTag(v) == v % 256

ShortTag(v) == ((v + 32768) % 65536) - 32768

ENCHANTMENTS_MAP ==
    [protection |-> 0, fire_protection |-> 1, feather_falling |-> 2,
     blast_protection |-> 3, projectile_protection |-> 4, thorns |-> 5,
     respiration |-> 6, depth_strider |-> 7, aqua_affinity |-> 8,
     sharpness |-> 9, smite |-> 10, bane_of_arthropods |-> 11,
     knockback |-> 12, fire_aspect |-> 13, looting |-> 14, efficiency |-> 15,
     silk_touch |-> 16, unbreaking |-> 17, fortune |-> 18, power |-> 19,
     punch |-> 20, flame |-> 21, infinity |-> 22, luck_of_the_sea |-> 23,
     lure |-> 24, frost_walker |-> 25, mending |-> 26,
     curse_of_binding |-> 27, curse_of_vanishing |-> 28, impaling |-> 29,
     riptide |-> 30, loyalty |-> 31, channeling |-> 32, multishot |-> 33,
     piercing |-> 34, quick_charge |-> 35, soul_speed |-> 36,
     swift_sneak |-> 37, wind_burst |-> 38, density |-> 39, breach |-> 40,
     lunge |-> 41]

----------------------------------------------------------------------------
(* Slot contents *)

(* ItemStack(item_type, item_amount, item_data) with its meta, as set_slot
   builds it; enchants is the ordered list of (name, level) items, and a
   lore or enchants argument that was not given is the empty list *)
ItemStack(item_type, item_amount, item_data, display_name, lore, enchants) ==
    [type |-> item_type, amount |-> item_amount, data |-> item_data,
     display_name |-> display_name, lore |-> lore, enchants |-> enchants]

RECURSIVE EnchListDefault(_)
(* ENCHANTMENTS_MAP.get(name, -1): a name outside the table encoded too *)
EnchListDefault(enchants) ==
    IF enchants = <<>> THEN <<>>
    ELSE LET name == Head(enchants)[1]
             level == Head(enchants)[2]
             ench == IF name \in DOMAIN ENCHANTMENTS_MAP
                     THEN ENCHANTMENTS_MAP[name] ELSE -1
         IN  <<[id |-> ShortTag(ench), lvl |-> ShortTag(level)]>>
             \o EnchListDefault(Tail(enchants))

RECURSIVE EnchList(_)
EnchList(enchants) ==
    IF enchants = <<>> THEN <<>>
    ELSE LET name == Head(enchants)[1]
             level == Head(enchants)[2]
         IN  IF name \in DOMAIN ENCHANTMENTS_MAP
             THEN <<[id |-> ShortTag(ENCHANTMENTS_MAP[name]), lvl |-> ShortTag(level)]>>
                  \o EnchList(Tail(enchants))
             ELSE EnchList(Tail(enchants))

(* the `item` argument None of set_form_slot *)
NoItem == [type |-> None]

ItemNbt(index, item) ==
    IF item.type = None THEN EmptyDict
    ELSE LET slot == IF index >= ChestSlots THEN index - ChestSlots ELSE index
             base == [Count |-> ByteTag(item.amount),
                      Damage |-> ShortTag(item.data),
                      Name |-> item.type,
                      WasPickedUp |-> FALSE,
                      Slot |-> ByteTag(slot)]
             d1 == IF item.display_name # None
                   THEN DictPut(EmptyDict, "Name", item.display_name) ELSE EmptyDict
             display == IF item.lore # <<>> THEN DictPut(d1, "Lore", item.lore) ELSE d1
             t1 == IF DOMAIN display # {}
                   THEN DictPut(EmptyDict, "display", display) ELSE EmptyDict
             tag == IF item.enchants # <<>>
                    THEN DictPut(t1, "ench", EnchList(item.enchants)) ELSE t1
         IN  IF DOMAIN tag # {} THEN DictPut(base, "tag", tag) ELSE base

CallbacksAfterSet(call_backs, index, callback) ==
    IF callback # None THEN DictPut(call_backs, index, callback) ELSE call_backs

set_form_slot(form, index, item, callback) ==
    [form EXCEPT !.ui_items = DictPut(@, index, ItemNbt(index, item)),
                 !.call_backs = CallbacksAfterSet(@, index, callback)]

RECURSIVE SetSlotsFrom(_, _, _)
(* for index in range(54): set_form_slot(form, index, item, None), from `index` on *)
SetSlotsFrom(form, index, item) ==
    IF index >= ReservedSlots THEN form
    ELSE LET next == set_form_slot(form, index, item, None)
         IN  IF index \in DOMAIN next.ui_items
             THEN SetSlotsFrom(next, index + 1, item) ELSE next

ChestForm(title, large_chest) ==
    SetSlotsFrom([title |-> title, large_chest |-> large_chest,
                  ui_items |-> EmptyDict, call_backs |-> EmptyDict], 0, NoItem)

----------------------------------------------------------------------------
(* The world and the player, as the host server reports them *)

DimensionTypes == {"OVERWORLD", "NETHER", "THE_END"}

HomeLocation ==
    [block_x |-> 0, block_y |-> 64, block_z |-> 0, dimension |-> "OVERWORLD"]

NetherLocation ==
    [block_x |-> 8, block_y |-> 124, block_z |-> 0, dimension |-> "NETHER"]

LocationInputs == {HomeLocation, NetherLocation}

PlayerLocation == [P |-> HomeLocation, Q |-> NetherLocation]

(* player.dimension.get_block_at(x, y, z).data.runtime_id: the real block of
   the world, which this program never alters *)
get_block_at(x, y, z) == IF y < 100 THEN 1 + (x % 2) ELSE 3 + (x % 2)

----------------------------------------------------------------------------
(* Outbound packets *)

NetworkBlockPosition(x, y, z) == <<x, y, z>>

UpdateBlockPacket(pos, block_runtime_id) ==
    [id |-> "UpdateBlock", pos |-> pos, runtime_id |-> block_runtime_id,
     flags |-> 3, layer |-> 0]

BlockActorDataPacket(pos, nbt) ==
    [id |-> "BlockActorData", pos |-> pos, nbt |-> nbt]

ContainerOpenPacket(container_id, pos) ==
    [id |-> "ContainerOpen", container_id |-> container_id, type |-> 0,
     pos |-> pos, unique_id |-> -1]

ContainerClosePacket(container_id, server) ==
    [id |-> "ContainerClose", container_id |-> container_id, type |-> 0,
     server |-> server]

(* the chest's runtime id sent also on close *)
update_chest_block_chest(form, x, y, z, is_close) ==
    LET first == <<UpdateBlockPacket(NetworkBlockPosition(x, y, z), ChestRuntimeId)>>
    IN  IF form.large_chest
        THEN first \o <<UpdateBlockPacket(NetworkBlockPosition(x + 1, y, z), ChestRuntimeId)>>
        ELSE first

(* the packets update_chest_block sends, in order *)
update_chest_block(form, x, y, z, is_close) ==
    LET id1 == IF is_close THEN get_block_at(x, y, z) ELSE ChestRuntimeId
        id2 == IF is_close THEN get_block_at(x + 1, y, z) ELSE ChestRuntimeId
        first == <<UpdateBlockPacket(NetworkBlockPosition(x, y, z), id1)>>
    IN  IF form.large_chest
        THEN first \o <<UpdateBlockPacket(NetworkBlockPosition(x + 1, y, z), id2)>>
        ELSE first

BlockNbt(form, x, y, z, pairx, pairlead, base) ==
    [CustomName |-> form.title, Findable |-> FALSE, id |-> "Chest",
     isMovable |-> TRUE, x |-> x, y |-> y, z |-> z, pairx |-> pairx,
     pairz |-> z, pairlead |-> pairlead,
     Items |-> [i \in 1..ChestSlots |-> form.ui_items[base + i - 1]]]

(* the Items list not cleared between the two packets *)
update_chest_block_actor_unclear(form, x, y, z) ==
    LET first == <<BlockActorDataPacket(NetworkBlockPosition(x, y, z),
                       BlockNbt(form, x, y, z, x + 1, TRUE, 0))>>
        both == [i \in 1..(2 * ChestSlots) |-> form.ui_items[i - 1]]
    IN  IF form.large_chest
        THEN first \o <<BlockActorDataPacket(NetworkBlockPosition(x + 1, y, z),
                            [BlockNbt(form, x + 1, y, z, x, FALSE, ChestSlots)
                                EXCEPT !.Items = both])>>
        ELSE first

(* the packets update_chest_block_actor sends, in order *)
update_chest_block_actor(form, x, y, z) ==
    LET first == <<BlockActorDataPacket(NetworkBlockPosition(x, y, z),
                       BlockNbt(form, x, y, z, x + 1, TRUE, 0))>>
    IN  IF form.large_chest
        THEN first \o <<BlockActorDataPacket(NetworkBlockPosition(x + 1, y, z),
                            BlockNbt(form, x + 1, y, z, x, FALSE, ChestSlots))>>
        ELSE first

----------------------------------------------------------------------------
(* The registry: a dict keyed by the player's unique id, kept as its set of
   (key, value) items *)

FormData(form, x, y, z) == [form |-> form, x |-> x, y |-> y, z |-> z]

(* the key ignored: every item of the dict *)
EntriesOfAny(d, uuid) == d

(* the items of the dict under one key *)
EntriesOf(d, uuid) == {e \in d : e.uuid = uuid}

(* uuid in cls.runtime_forms *)
HasKey(d, uuid) == EntriesOf(d, uuid) # {}

(* cls.runtime_forms[uuid] *)
Lookup(d, uuid) == (CHOOSE e \in EntriesOf(d, uuid) : TRUE).data

(* del cls.runtime_forms[uuid] *)
DelKey(d, uuid) == {e \in d : e.uuid # uuid}

(* an item added without replacing the one under the same key *)
add_runtime_form_append(d, uuid, data) == d \cup {[uuid |-> uuid, data |-> data]}

add_runtime_form(d, uuid, data) ==
    DelKey(d, uuid) \cup {[uuid |-> uuid, data |-> data]}

----------------------------------------------------------------------------
(* The scheduler: run_task(plugin, task, delay) *)

OpenTask(player, form, x, y, z) ==
    [task |-> "open_chest", delay |-> OpenDelay, player |-> player,
     form |-> form, x |-> x, y |-> y, z |-> z, index |-> 0]

CallbackTask(player, form, index) ==
    [task |-> "callback", delay |-> CallbackDelay, player |-> player,
     form |-> form, x |-> 0, y |-> 0, z |-> 0, index |-> index]

InsertAt(queue, i, task) ==
    SubSeq(queue, 1, i - 1) \o <<task>> \o SubSeq(queue, i, Len(queue))

(* The queue is kept in the order in which the scheduler will run the tasks
   (by due tick, then by scheduling order).  A pending task whose delay is
   no longer than the new task's is due no later than the new task, so the
   new task goes behind it; a pending task with a longer delay is due before
   or after the new task, according to how many ticks ago it was scheduled.
   run_delay_task gives every queue the elapsed time allows. *)
MustPrecede(queue, task) == {j \in 1..Len(queue) : queue[j].delay <= task.delay}

run_delay_task(queue, task) ==
    LET behind == MustPrecede(queue, task)
        from == IF behind = {} THEN 1
                ELSE 1 + CHOOSE j \in behind : \A k \in behind : k <= j
    IN  {InsertAt(queue, i, task) : i \in from..(Len(queue) + 1)}

----------------------------------------------------------------------------
(* Inbound packets *)

Take == "Take"
Place == "Place"

Action(action_type, net_id, slot) ==
    [action_type |-> action_type, net_id |-> net_id, slot |-> slot]

ActionInputs ==
    {Action(Take, 0, 0), Action(Take, 0, 30), Action(Take, 0, 5),
     Action(Take, 1, 0), Action(Place, 0, 0)}

SeqsUpTo(S, n) == UNION {[1..k -> S] : k \in 0..n}

RECURSIVE Flatten(_)
Flatten(request_data) ==
    IF request_data = <<>> THEN <<>>
    ELSE Head(request_data) \o Flatten(Tail(request_data))

(* ItemStackRequestPacket.request.request_data: at most MaxRequests requests
   holding at most MaxActions actions between them *)
RECURSIVE PacketsUpTo(_, _)
PacketsUpTo(requests, actions) ==
    IF requests = 0 THEN {<<>>}
    ELSE {<<>>} \cup
         UNION {{<<req>> \o rest :
                    rest \in PacketsUpTo(requests - 1, actions - Len(req))} :
                req \in SeqsUpTo(ActionInputs, actions)}

PacketInputs == PacketsUpTo(MaxRequests, MaxActions)

ContainerIdInputs == {ReservedContainerId, 0}

----------------------------------------------------------------------------
(* ChestFormCallbackHandler.handle_chest_callback: the scan of the packet *)

(* the condition without the check of the source's origin code *)
IsClickAnyOrigin(action, call_backs) ==
    /\ action.action_type = Take
    /\ action.slot \in DOMAIN call_backs

IsClick(action, call_backs) ==
    /\ action.action_type = Take
    /\ action.net_id = 0
    /\ action.slot \in DOMAIN call_backs

RECURSIVE ScanActions(_, _)
(* the inner loop: the slot of the first action that reaches `return`, if any *)
ScanActions(request_actions, call_backs) ==
    IF request_actions = <<>> THEN <<>>
    ELSE IF IsClick(Head(request_actions), call_backs)
         THEN <<Head(request_actions).slot>>
         ELSE ScanActions(Tail(request_actions), call_backs)

RECURSIVE ScanRequests(_, _)
(* the outer loop, left by the inner loop's `return` *)
ScanRequests(request_data, call_backs) ==
    IF request_data = <<>> THEN <<>>
    ELSE LET hit == ScanActions(Head(request_data), call_backs)
         IN  IF hit # <<>> THEN hit
             ELSE ScanRequests(Tail(request_data), call_backs)

(* the scan without its `return`: every matching action is handled *)
handled_slots_all(request_data, call_backs) ==
    LET hit(a) == IsClick(a, call_backs)
        all == SelectSeq(Flatten(request_data), hit)
    IN  [i \in 1..Len(all) |-> all[i].slot]

(* the slots for which the body of the innermost `if` runs, in order *)
handled_slots(request_data, call_backs) == ScanRequests(request_data, call_backs)

RECURSIVE ScheduleAll(_, _)
(* every queue that scheduling `new`, one task after the other, can give *)
ScheduleAll(queue, new) ==
    IF new = <<>> THEN {queue}
    ELSE UNION {ScheduleAll(q, Tail(new)) : q \in run_delay_task(queue, Head(new))}

RECURSIVE ClickPacketsCallbackFirst(_, _, _)
(* the callback called in the handler, before the close packet is sent *)
ClickPacketsCallbackFirst(slots, form, data) ==
    IF slots = <<>> THEN <<>>
    ELSE <<[id |-> "Callback", index |-> Head(slots),
            callback |-> form.call_backs[Head(slots)]],
           ContainerClosePacket(ReservedContainerId, TRUE)>>
         \o update_chest_block(form, data.x, data.y, data.z, TRUE)
         \o ClickPacketsCallbackFirst(Tail(slots), form, data)

RECURSIVE ClickPackets(_, _, _)
(* what the body of the innermost `if` sends, once per handled slot *)
ClickPackets(slots, form, data) ==
    IF slots = <<>> THEN <<>>
    ELSE <<ContainerClosePacket(ReservedContainerId, TRUE)>>
         \o update_chest_block(form, data.x, data.y, data.z, TRUE)
         \o ClickPackets(Tail(slots), form, data)

ClickTasks(slots, player, form) ==
    [i \in 1..Len(slots) |-> CallbackTask(player, form, slots[i])]

----------------------------------------------------------------------------
(* Inputs of the configuration calls *)

SlotInputs == {0, 27, 30, 54}

DiamondArgs ==
    [item_type |-> "minecraft:diamond", item_amount |-> 5, item_data |-> 0,
     display_name |-> None, lore |-> <<>>, enchants |-> <<>>]

SwordArgs ==
    [item_type |-> "minecraft:diamond_sword", item_amount |-> 1, item_data |-> 2,
     display_name |-> "Blade", lore |-> <<>>,
     enchants |-> <<<<"sharpness", 3>>, <<"bogus", 1>>>>]

BookArgs ==
    [item_type |-> "minecraft:book", item_amount |-> 64, item_data |-> 300,
     display_name |-> None, lore |-> <<"Page">>,
     enchants |-> <<<<"minecraft:sharpness", 2>>>>]

ItemInputs == {DiamondArgs, SwordArgs, BookArgs}

(* item_data and item_amount passed to ItemStack in each other's place *)
set_slot_swapped(form, slot, args, callback) ==
    set_form_slot(form, slot,
                  ItemStack(args.item_type, args.item_data, args.item_amount,
                            args.display_name, args.lore, args.enchants),
                  callback)

(* ChestForm.set_slot *)
set_slot(form, slot, args, callback) ==
    set_form_slot(form, slot,
                  ItemStack(args.item_type, args.item_amount, args.item_data,
                            args.display_name, args.lore, args.enchants),
                  callback)

RECURSIVE FillFrom(_, _, _)
FillFrom(form, index, args) ==
    IF index >= ReservedSlots THEN form
    ELSE LET next == set_slot(form, index, args, None)
         IN  IF index \in DOMAIN next.ui_items
             THEN FillFrom(next, index + 1, args) ELSE next

(* ChestForm.fill_slots *)
fill_slots(form, args) == FillFrom(form, 0, args)

(* the anchor send_to chooses *)
Ceiling(d) ==
    IF d = "OVERWORLD" THEN OverworldCeiling
    ELSE IF d = "NETHER" THEN NetherCeiling ELSE TheEndCeiling

AnchorY(location) ==
    LET y == location.block_y + UpOffset
    IN  IF y > Ceiling(location.dimension)
        THEN location.block_y - DownOffset ELSE y

(* Digests of an inbound item-request packet, kept in `last`: the slots of
   its Take actions with origin code 0, in packet order, and those among them
   that have a callback in the presented form *)
Taken(request_data) ==
    LET hit(a) == a.action_type = "Take" /\ a.net_id = 0
        all == SelectSeq(Flatten(request_data), hit)
    IN  [i \in 1..Len(all) |-> all[i].slot]

Clicks(request_data, call_backs) ==
    LET hit(slot) == slot \in DOMAIN call_backs
    IN  SelectSeq(Taken(request_data), hit)

----------------------------------------------------------------------------
(* The state machine *)

Init ==
    /\ forms = [f \in Forms |-> ChestForm("ChestUI", f = "F1")]
    /\ runtime_forms = {}
    /\ tasks = <<>>
    /\ trace = [p \in Players |-> <<>>]
    /\ last = [op |-> "init"]
    /\ nconfig = 0
    /\ npresent = 0

SetTitle(f, title) ==
    /\ forms' = [forms EXCEPT ![f].title = title]
    /\ last' = [op |-> "set_title", form |-> f]
    /\ nconfig' = nconfig + 1
    /\ UNCHANGED <<runtime_forms, tasks, trace, npresent>>

SetSlot(f, slot, args, callback) ==
    /\ forms' = [forms EXCEPT ![f] = set_slot(@, slot, args, callback)]
    /\ last' = [op |-> "set_slot", form |-> f, slot |-> slot, args |-> args,
                callback |-> callback]
    /\ nconfig' = nconfig + 1
    /\ UNCHANGED <<runtime_forms, tasks, trace, npresent>>

FillSlots(f, args) ==
    /\ forms' = [forms EXCEPT ![f] = fill_slots(@, args)]
    /\ last' = [op |-> "fill_slots", form |-> f]
    /\ nconfig' = nconfig + 1
    /\ UNCHANGED <<runtime_forms, tasks, trace, npresent>>

(* the open packet sent at once, ahead of the block metadata *)
send_to_packets_open_early(form, x, y, z) ==
    update_chest_block(form, x, y, z, FALSE)
    \o <<ContainerOpenPacket(ReservedContainerId, NetworkBlockPosition(x, y, z))>>
    \o update_chest_block_actor(form, x, y, z)

(* what send_to sends before it schedules open_chest *)
send_to_packets(form, x, y, z) ==
    update_chest_block(form, x, y, z, FALSE) \o update_chest_block_actor(form, x, y, z)

SendTo(f, p, location) ==
    /\ LET x == location.block_x
           y == AnchorY(location)
           z == location.block_z
       IN  /\ trace' = [trace EXCEPT ![p] = @ \o send_to_packets(forms[f], x, y, z)]
           /\ tasks' \in run_delay_task(tasks, OpenTask(p, f, x, y, z))
           /\ last' = [op |-> "send_to", player |-> p, form |-> f,
                       x |-> x, y |-> y, z |-> z, location |-> location]
    /\ npresent' = npresent + 1
    /\ UNCHANGED <<forms, runtime_forms, nconfig>>

(* form.call_backs.pop(index) in place of the lookup: a callback is taken
   out of the form when its click is resolved *)
HandleChestCallbackPop(p, request_data) ==
    /\ IF HasKey(runtime_forms, p)
       THEN LET data == Lookup(runtime_forms, p)
                form == forms[data.form]
                slots == handled_slots(request_data, form.call_backs)
                kept == DOMAIN form.call_backs \ {slots[i] : i \in 1..Len(slots)}
            IN  /\ trace' = [trace EXCEPT ![p] = @ \o ClickPackets(slots, form, data)]
                /\ runtime_forms' = IF slots # <<>> THEN DelKey(runtime_forms, p)
                                    ELSE runtime_forms
                /\ tasks' \in ScheduleAll(tasks, ClickTasks(slots, p, data.form))
                /\ forms' = [forms EXCEPT ![data.form].call_backs =
                                 [i \in kept |-> form.call_backs[i]]]
                /\ last' = [op |-> "take", player |-> p, had_entry |-> TRUE,
                            data |-> data, taken |-> Taken(request_data),
                            clicks |-> Clicks(request_data, form.call_backs)]
       ELSE /\ last' = [op |-> "take", player |-> p, had_entry |-> FALSE]
            /\ UNCHANGED <<runtime_forms, tasks, trace, forms>>
    /\ UNCHANGED <<nconfig, npresent>>

HandleChestCallback(p, request_data) ==
    /\ IF HasKey(runtime_forms, p)
       THEN LET data == Lookup(runtime_forms, p)
                form == forms[data.form]
                slots == handled_slots(request_data, form.call_backs)
            IN  /\ trace' = [trace EXCEPT ![p] = @ \o ClickPackets(slots, form, data)]
                /\ runtime_forms' = IF slots # <<>> THEN DelKey(runtime_forms, p)
                                    ELSE runtime_forms
                /\ tasks' \in ScheduleAll(tasks, ClickTasks(slots, p, data.form))
                /\ last' = [op |-> "take", player |-> p, had_entry |-> TRUE,
                            data |-> data, taken |-> Taken(request_data),
                            clicks |-> Clicks(request_data, form.call_backs)]
       ELSE /\ last' = [op |-> "take", player |-> p, had_entry |-> FALSE]
            /\ UNCHANGED <<runtime_forms, tasks, trace>>
    /\ UNCHANGED <<forms, nconfig, npresent>>

(* the check of the container id left out *)
IsAnyClose(container_id) == container_id = container_id

(* if packet.container_id == 114 *)
IsReservedClose(container_id) == container_id = ReservedContainerId

(* the whole registry cleared on close, instead of the player's key deleted *)
HandleChestCloseClear(p, container_id) ==
    /\ IF IsReservedClose(container_id) /\ HasKey(runtime_forms, p)
       THEN LET data == Lookup(runtime_forms, p)
                form == forms[data.form]
            IN  /\ trace' = [trace EXCEPT ![p] =
                        @ \o update_chest_block(form, data.x, data.y, data.z, TRUE)]
                /\ runtime_forms' = {}
                /\ last' = [op |-> "close", player |-> p, container_id |-> container_id,
                            had_entry |-> TRUE, data |-> data]
       ELSE /\ last' = [op |-> "close", player |-> p, container_id |-> container_id,
                        had_entry |-> HasKey(runtime_forms, p)]
            /\ UNCHANGED <<runtime_forms, trace>>
    /\ UNCHANGED <<forms, tasks, nconfig, npresent>>

HandleChestClose(p, container_id) ==
    /\ IF IsReservedClose(container_id) /\ HasKey(runtime_forms, p)
       THEN LET data == Lookup(runtime_forms, p)
                form == forms[data.form]
            IN  /\ trace' = [trace EXCEPT ![p] =
                        @ \o update_chest_block(form, data.x, data.y, data.z, TRUE)]
                /\ runtime_forms' = DelKey(runtime_forms, p)
                /\ last' = [op |-> "close", player |-> p, container_id |-> container_id,
                            had_entry |-> TRUE, data |-> data]
       ELSE /\ last' = [op |-> "close", player |-> p, container_id |-> container_id,
                        had_entry |-> HasKey(runtime_forms, p)]
            /\ UNCHANGED <<runtime_forms, trace>>
    /\ UNCHANGED <<forms, tasks, nconfig, npresent>>

(* the closure open_chest of send_to, run by the scheduler *)
OpenChest ==
    /\ tasks # <<>>
    /\ Head(tasks).task = "open_chest"
    /\ LET t == Head(tasks)
       IN  /\ trace' = [trace EXCEPT ![t.player] = Append(@,
                   ContainerOpenPacket(ReservedContainerId,
                                       NetworkBlockPosition(t.x, t.y, t.z)))]
           /\ runtime_forms' = add_runtime_form(runtime_forms, t.player,
                                                FormData(t.form, t.x, t.y, t.z))
           /\ last' = [op |-> "open_chest", player |-> t.player,
                       data |-> FormData(t.form, t.x, t.y, t.z),
                       replaced |-> {e.data : e \in EntriesOf(runtime_forms, t.player)}]
    /\ tasks' = Tail(tasks)
    /\ UNCHANGED <<forms, nconfig, npresent>>

(* the lambda of handle_chest_callback, run by the scheduler *)
RunCallback ==
    /\ tasks # <<>>
    /\ Head(tasks).task = "callback"
    /\ LET t == Head(tasks)
       IN  /\ trace' = [trace EXCEPT ![t.player] = Append(@,
                   [id |-> "Callback", index |-> t.index,
                    callback |-> forms[t.form].call_backs[t.index]])]
           /\ last' = [op |-> "callback", player |-> t.player, form |-> t.form,
                       index |-> t.index]
    /\ tasks' = Tail(tasks)
    /\ UNCHANGED <<forms, runtime_forms, nconfig, npresent>>

(* packet.deserialize(payload) on a payload that does not decode.  The
   decoder belongs to the protocol library; the handlers call it without a
   try block and without looking at a result, so the library's two ways of
   failing are both kept: it raises, and the exception leaves the handler
   before anything else ran, or it returns, and the handler goes on with the
   fields that were read. *)
DeserializeOutcomes == {"raises", "returns"}

(* handle_chest_callback on a payload that does not decode; `read` is what
   the packet object holds if deserialize returns *)
HandleUndecodedCallback(p, read, outcome) ==
    /\ IF outcome = "returns" /\ HasKey(runtime_forms, p)
       THEN LET data == Lookup(runtime_forms, p)
                form == forms[data.form]
                slots == handled_slots(read, form.call_backs)
            IN  /\ trace' = [trace EXCEPT ![p] = @ \o ClickPackets(slots, form, data)]
                /\ runtime_forms' = IF slots # <<>> THEN DelKey(runtime_forms, p)
                                    ELSE runtime_forms
                /\ tasks' \in ScheduleAll(tasks, ClickTasks(slots, p, data.form))
       ELSE UNCHANGED <<runtime_forms, tasks, trace>>
    /\ last' = [op |-> "undecoded", handler |-> "take", player |-> p,
                raised |-> (outcome = "raises"), had_entry |-> HasKey(runtime_forms, p)]
    /\ UNCHANGED <<forms, nconfig, npresent>>

(* handle_chest_close on a payload that does not decode *)
HandleUndecodedClose(p, read, outcome) ==
    /\ IF outcome = "returns" /\ IsReservedClose(read) /\ HasKey(runtime_forms, p)
       THEN LET data == Lookup(runtime_forms, p)
                form == forms[data.form]
            IN  /\ trace' = [trace EXCEPT ![p] =
                        @ \o update_chest_block(form, data.x, data.y, data.z, TRUE)]
                /\ runtime_forms' = DelKey(runtime_forms, p)
       ELSE UNCHANGED <<runtime_forms, trace>>
    /\ last' = [op |-> "undecoded", handler |-> "close", player |-> p,
                raised |-> (outcome = "raises"), had_entry |-> HasKey(runtime_forms, p)]
    /\ UNCHANGED <<forms, tasks, nconfig, npresent>>

(* Inputs of the specifications *)
(* a take from slot 0, where every configured form has a callback, and one
   from slot 5, where none has *)
ClickPacketInputs == {<<<<Action(Take, 0, 0)>>>>, <<<<Action(Take, 0, 5)>>>>}

(* The forms as a plugin has configured them before it presents them. *)
ConfiguredForms ==
    [f \in Forms |->
        IF f = "F1"
        THEN set_slot(set_slot(ChestForm("ChestUI", TRUE), 0, DiamondArgs, "cbA"),
                      30, SwordArgs, "cbB")
        ELSE set_slot(ChestForm("Shop", FALSE), 0, DiamondArgs, "cbA")]

InitConfigured ==
    /\ forms = ConfiguredForms
    /\ runtime_forms = {}
    /\ tasks = <<>>
    /\ trace = [p \in Players |-> <<>>]
    /\ last = [op |-> "init"]
    /\ nconfig = 0
    /\ npresent = 0

(* One player and two configured forms: reconfigured, presented, clicked and
   closed. *)
Next ==
    \/ \E f \in Forms, title \in Titles : nconfig < MaxConfig /\ SetTitle(f, title)
    \/ \E f \in Forms, slot \in {0, 30}, callback \in {"cbA", None} :
          nconfig < MaxConfig /\ SetSlot(f, slot, DiamondArgs, callback)
    \/ \E f \in Forms : nconfig < MaxConfig /\ FillSlots(f, DiamondArgs)
    \/ \E f \in Forms :
          npresent < MaxPresent /\ SendTo(f, "P", HomeLocation)
    \/ \E request_data \in ClickPacketInputs : HandleChestCallback("P", request_data)
    \/ \E container_id \in ContainerIdInputs : HandleChestClose("P", container_id)
    \/ OpenChest
    \/ RunCallback

Spec == InitConfigured /\ [][Next]_vars

(* One player and two configured forms, each presentation made when the one
   before it is over, with every inbound item-request packet of up to
   MaxRequests requests and MaxActions actions. *)
NextScan ==
    \/ \E f \in Forms, location \in LocationInputs :
          /\ npresent < MaxPresent
          /\ runtime_forms = {}
          /\ tasks = <<>>
          /\ SendTo(f, "P", location)
    \/ \E request_data \in PacketInputs : HandleChestCallback("P", request_data)
    \/ \E container_id \in ContainerIdInputs : HandleChestClose("P", container_id)
    \/ OpenChest
    \/ RunCallback

SpecScan == InitConfigured /\ [][NextScan]_vars

(* Two players, each at a place of their own, and two configured forms,
   presented more than once. *)
NextPresent ==
    \/ \E f \in Forms, p \in Players :
          npresent < MaxPresentAgain /\ SendTo(f, p, PlayerLocation[p])
    \/ \E p \in Players, request_data \in ClickPacketInputs :
          HandleChestCallback(p, request_data)
    \/ \E p \in Players, container_id \in ContainerIdInputs :
          HandleChestClose(p, container_id)
    \/ OpenChest
    \/ RunCallback

SpecPresent == InitConfigured /\ [][NextPresent]_vars

(* One player and two configured forms, with inbound payloads that decode
   and payloads that do not. *)
NextDecode ==
    \/ \E f \in Forms, location \in LocationInputs :
          npresent < MaxPresent /\ SendTo(f, "P", location)
    \/ \E request_data \in ClickPacketInputs : HandleChestCallback("P", request_data)
    \/ \E container_id \in ContainerIdInputs : HandleChestClose("P", container_id)
    \/ \E read \in ClickPacketInputs \cup {<<>>}, outcome \in DeserializeOutcomes :
          HandleUndecodedCallback("P", read, outcome)
    \/ \E read \in ContainerIdInputs, outcome \in DeserializeOutcomes :
          HandleUndecodedClose("P", read, outcome)
    \/ OpenChest
    \/ RunCallback

SpecDecode == InitConfigured /\ [][NextDecode]_vars

(* player.location in each dimension, from well below its ceiling to above
   it *)
HeightInputs == {-60, -4, -3, 3, 4}

AnchorLocationInputs ==
    {[block_x |-> 3, block_y |-> Ceiling(d) + k, block_z |-> -2, dimension |-> d] :
        d \in DimensionTypes, k \in HeightInputs}

(* One player, presented a form at every height and in every dimension. *)
NextAnchor ==
    \/ \E f \in Forms, location \in AnchorLocationInputs :
          npresent < MaxPresent /\ SendTo(f, "P", location)
    \/ \E request_data \in ClickPacketInputs : HandleChestCallback("P", request_data)
    \/ \E container_id \in ContainerIdInputs : HandleChestClose("P", container_id)
    \/ OpenChest
    \/ RunCallback

SpecAnchor == InitConfigured /\ [][NextAnchor]_vars

(* The configuration calls alone, on freshly constructed forms, over all
   their inputs. *)
NextForm ==
    \/ \E f \in Forms, title \in Titles : nconfig < MaxFormCalls /\ SetTitle(f, title)
    \/ \E f \in Forms, slot \in SlotInputs, args \in ItemInputs,
          callback \in Callbacks \cup {None} :
          nconfig < MaxFormCalls /\ SetSlot(f, slot, args, callback)
    \/ \E f \in Forms, args \in ItemInputs :
          nconfig < MaxFormCalls /\ FillSlots(f, args)

SpecForm == Init /\ [][NextForm]_vars

----------------------------------------------------------------------------
(* Vocabulary of the properties *)

HasEntry(registry, p) == \E e \in registry : e.uuid = p

EntryData(registry, p) == (CHOOSE e \in registry : e.uuid = p).data

ServerClose ==
    [id |-> "ContainerClose", container_id |-> ReservedContainerId, type |-> 0,
     server |-> TRUE]

RealBlock(x, y, z) ==
    [id |-> "UpdateBlock", pos |-> <<x, y, z>>, runtime_id |-> get_block_at(x, y, z),
     flags |-> 3, layer |-> 0]

(* one revert with the real block ids: one packet per block of the chest *)
RevertPackets(data) ==
    IF forms[data.form].large_chest
    THEN <<RealBlock(data.x, data.y, data.z), RealBlock(data.x + 1, data.y, data.z)>>
    ELSE <<RealBlock(data.x, data.y, data.z)>>

Indices(tr, kind) == {k \in 1..Len(tr) : tr[k].id = kind}

TakeStep == last'.op = "take" /\ HasEntry(runtime_forms, last'.player)

(* C1: a take on a slot with a callback, from a player with an entry, sends
   exactly one close packet (container id 114, server-initiated) followed by
   one revert with the real block ids, removes the player's entry and
   schedules exactly one callback, for the first matching action of the
   packet, however many actions match. *)
C1_ClickTearsDownOnce ==
    [][(TakeStep /\ last'.clicks # <<>>) =>
        LET p == last'.player
            data == EntryData(runtime_forms, p)
        IN  /\ trace'[p] = trace[p] \o <<ServerClose>> \o RevertPackets(data)
            /\ \A q \in Players \ {p} : trace'[q] = trace[q]
            /\ ~HasEntry(runtime_forms', p)
            /\ \E i \in 1..(Len(tasks) + 1) :
                  tasks' = InsertAt(tasks, i,
                               CallbackTask(p, data.form, last'.clicks[1]))]_vars

C1_Witness ==
    /\ last.op = "take"
    /\ last.had_entry
    /\ Len(last.clicks) >= 2
    /\ last.clicks[1] # last.clicks[2]
    /\ Len(tasks) = 1
    /\ tasks[1].task = "callback"
    /\ tasks[1].index = last.clicks[1]
    /\ ~HasEntry(runtime_forms, last.player)

(* C2: a take packet in which no Take action with origin code 0 targets a
   slot with a callback leaves the player's entry intact, sends nothing and
   schedules nothing. *)
C2_NoClickNoChange ==
    [][(TakeStep /\ last'.clicks = <<>>) =>
        UNCHANGED <<runtime_forms, trace, tasks, forms>>]_vars

C2_Witness ==
    /\ last.op = "take"
    /\ last.had_entry
    /\ last.clicks = <<>>
    /\ last.taken # <<>>
    /\ HasEntry(runtime_forms, last.player)

CloseStep == last'.op = "close"

(* C3: a close packet with the reserved container id 114, from a player with
   an entry, reverts the anchor block(s) with the real block ids, removes
   the player's entry and schedules or runs no callback. *)
C3_CloseReverts ==
    [][(CloseStep /\ last'.container_id = ReservedContainerId
                  /\ HasEntry(runtime_forms, last'.player)) =>
        LET p == last'.player
            data == EntryData(runtime_forms, p)
        IN  /\ trace'[p] = trace[p] \o RevertPackets(data)
            /\ \A q \in Players \ {p} : trace'[q] = trace[q]
            /\ ~HasEntry(runtime_forms', p)
            /\ tasks' = tasks]_vars

C3_Witness ==
    /\ last.op = "close"
    /\ last.container_id = ReservedContainerId
    /\ last.had_entry
    /\ forms[last.data.form].large_chest
    /\ ~HasEntry(runtime_forms, last.player)
    /\ Len(trace[last.player]) >= 2
    /\ trace[last.player][Len(trace[last.player])].runtime_id
          = get_block_at(last.data.x + 1, last.data.y, last.data.z)

(* C4: a close packet with another container id than 114 removes no entry
   and sends no packet, whether or not the player has an entry. *)
C4_OtherCloseIgnored ==
    [][(CloseStep /\ last'.container_id # ReservedContainerId) =>
        UNCHANGED <<runtime_forms, trace, tasks, forms>>]_vars

C4_Witness ==
    /\ last.op = "close"
    /\ last.container_id # ReservedContainerId
    /\ last.had_entry
    /\ HasEntry(runtime_forms, last.player)

(* C5: the registry holds at most one entry per player; the open task of a
   presentation to a player who already has an entry replaces that entry. *)
C5_OneEntryPerPlayer ==
    /\ \A p \in Players : Cardinality({e \in runtime_forms : e.uuid = p}) <= 1
    /\ last.op = "open_chest" =>
          {e.data : e \in {e \in runtime_forms : e.uuid = last.player}} = {last.data}

C5_Witness ==
    /\ last.op = "open_chest"
    /\ last.replaced # {}
    /\ \A old \in last.replaced : old.form # last.data.form
    /\ HasEntry(runtime_forms, last.player)

(* the k-th smallest element of a set of indices *)
Nth(S, n) == CHOOSE k \in S : Cardinality({j \in S : j <= k}) = n

IsRevert(packet) ==
    packet.id = "UpdateBlock" /\ packet.runtime_id # ChestRuntimeId

(* every callback run for the player comes after the close packet and the
   revert packets of its own click: the n-th callback after the n-th close
   packet and the run of revert packets that follows it *)
CallbacksAfterTeardown(tr) ==
    \A n \in 1..Cardinality(Indices(tr, "Callback")) :
        LET k == Nth(Indices(tr, "Callback"), n)
            closes == Indices(tr, "ContainerClose")
        IN  /\ Cardinality(closes) >= n
            /\ LET c == Nth(closes, n)
               IN  /\ c + 1 < k
                   /\ tr[c] = ServerClose
                   /\ IsRevert(tr[c + 1])
                   /\ \A j \in (c + 1)..Len(tr) :
                         (\A i \in (c + 1)..j : IsRevert(tr[i])) => j < k

(* a callback runs only as the scheduler's task that was already pending *)
CallbackOnlyAsTask ==
    \A p \in Players :
        Cardinality(Indices(trace'[p], "Callback")) # Cardinality(Indices(trace[p], "Callback"))
        => /\ last'.op = "callback"
           /\ last'.player = p
           /\ tasks # <<>>
           /\ Head(tasks) = CallbackTask(p, last'.form, last'.index)
           /\ tasks' = Tail(tasks)
           /\ trace'[p] = Append(trace[p], trace'[p][Len(trace'[p])])
           /\ trace'[p][Len(trace'[p])].id = "Callback"
           /\ trace'[p][Len(trace'[p])].index = last'.index

(* C6: when a slot callback runs, the close packet and the revert packets of
   the click that triggered it were sent to the player before, and the
   callback runs only in a later, scheduled task, never in the step that
   handles the packet. *)
C6_CallbackAfterTeardown ==
    /\ [](\A p \in Players : CallbacksAfterTeardown(trace[p]))
    /\ [][CallbackOnlyAsTask]_vars

C6_Witness ==
    /\ last.op = "callback"
    /\ Cardinality(Indices(trace[last.player], "Callback")) = 1
    /\ Cardinality(Indices(trace[last.player], "ContainerOpen")) = 2
    /\ trace[last.player][Len(trace[last.player])].id = "Callback"

Leads(tr) == {k \in Indices(tr, "BlockActorData") : tr[k].nbt.pairlead}

(* every open packet sent to the player comes after the substitution and
   metadata packets of its own presentation *)
OpensAfterPresentation(tr) ==
    \A n \in 1..Cardinality(Indices(tr, "ContainerOpen")) :
        LET k == Nth(Indices(tr, "ContainerOpen"), n)
        IN  /\ Cardinality(Leads(tr)) >= n
            /\ LET j == Nth(Leads(tr), n)
                   paired == j < Len(tr) /\ tr[j + 1].id = "BlockActorData"
                                        /\ ~tr[j + 1].nbt.pairlead
                   first == IF paired THEN j - 2 ELSE j - 1
               IN  /\ first >= 1
                   /\ (IF paired THEN j + 1 ELSE j) < k
                   /\ tr[j].pos = tr[k].pos
                   /\ tr[k].container_id = ReservedContainerId
                   /\ \A i \in first..(j - 1) :
                         tr[i].id = "UpdateBlock" /\ tr[i].runtime_id = ChestRuntimeId
                   /\ tr[first].pos = tr[k].pos
                   /\ paired => tr[j - 1].pos = tr[j + 1].pos

(* an open packet is sent only by the scheduler's open task that was already
   pending, never by the step of send_to *)
OpenOnlyAsTask ==
    \A p \in Players :
        Cardinality(Indices(trace'[p], "ContainerOpen"))
            # Cardinality(Indices(trace[p], "ContainerOpen"))
        => /\ last'.op = "open_chest"
           /\ last'.player = p
           /\ tasks # <<>>
           /\ Head(tasks).task = "open_chest"
           /\ Head(tasks).delay = OpenDelay
           /\ tasks' = Tail(tasks)
           /\ trace'[p] = Append(trace[p], trace'[p][Len(trace'[p])])

(* C7: for every presentation, its block-substitution and block-metadata
   packets are sent before its container-open packet, and the open packet is
   sent only by the delayed task, never in the step of send_to. *)
C7_OpenAfterPresentation ==
    /\ [](\A p \in Players : OpensAfterPresentation(trace[p]))
    /\ [][OpenOnlyAsTask]_vars

C7_Witness ==
    /\ last.op = "open_chest"
    /\ Cardinality(Indices(trace[last.player], "ContainerOpen")) = 2
    /\ Cardinality(Leads(trace[last.player])) = 2
    /\ forms[last.data.form].large_chest

LayoutSize(form) == IF form.large_chest THEN ReservedSlots ELSE ChestSlots

(* C8: set_slot without a callback, and fill_slots, leave no callback at the
   slots they set. *)
C8_UnsetClearsCallback ==
    /\ (last.op = "set_slot" /\ last.callback = None)
          => last.slot \notin DOMAIN forms[last.form].call_backs
    /\ last.op = "fill_slots" => DOMAIN forms[last.form].call_backs = {}

(* C9: set_slot with an index outside [0, layout_size) leaves the form as it
   was, and no content or callback exists at such an index. *)
C9_OutOfRangeRejected ==
    /\ [][(last'.op = "set_slot"
             /\ last'.slot \notin 0..(LayoutSize(forms[last'.form]) - 1))
          => forms' = forms]_vars
    /\ [](\A f \in Forms :
            /\ \A i \in DOMAIN forms[f].call_backs : i < LayoutSize(forms[f])
            /\ \A i \in DOMAIN forms[f].ui_items :
                  i >= LayoutSize(forms[f]) => DOMAIN forms[f].ui_items[i] = {})

(* C10: an item-request or close packet from a player without an entry,
   also between send_to and its open task, sends nothing, changes no entry
   and schedules nothing. *)
C10_IdleIgnored ==
    [][((last'.op = "take" \/ last'.op = "close")
           /\ ~HasEntry(runtime_forms, last'.player))
        => UNCHANGED <<runtime_forms, trace, tasks, forms>>]_vars

C10_Witness ==
    /\ last.op = "take"
    /\ ~last.had_entry
    /\ \E i \in 1..Len(tasks) :
          tasks[i].task = "open_chest" /\ tasks[i].player = last.player
    /\ \E e \in runtime_forms : e.uuid # last.player
    /\ trace[last.player] # <<>>
    /\ Indices(trace[last.player], "ContainerOpen") = {}

TasksOf(queue, p) == SelectSeq(queue, LAMBDA t : t.player = p)

(* C11: a take or a close of one player leaves every other player's entry
   (form and anchor), packets and pending tasks as they were, also when both
   entries hold the same form. *)
C11_OtherPlayerUntouched ==
    [][(last'.op = "take" \/ last'.op = "close") =>
        \A q \in Players \ {last'.player} :
            /\ {e \in runtime_forms' : e.uuid = q} = {e \in runtime_forms : e.uuid = q}
            /\ trace'[q] = trace[q]
            /\ TasksOf(tasks', q) = TasksOf(tasks, q)]_vars

(* one player's session was just torn down while another player holds an
   entry for the same form *)
C11_Witness ==
    /\ last.op \in {"take", "close"}
    /\ last.had_entry
    /\ ~HasEntry(runtime_forms, last.player)
    /\ \E e \in runtime_forms :
          /\ e.uuid # last.player
          /\ e.data.form = last.data.form
          /\ 0 \in DOMAIN forms[e.data.form].call_backs

(* the step is a teardown of the entry e: a click resolution or a close with
   the reserved id, by e's player, that ends with the revert of e's anchor *)
TornDown(e) ==
    /\ last'.player = e.uuid
    /\ \/ last'.op = "take" /\ last'.clicks # <<>>
       \/ last'.op = "close" /\ last'.container_id = ReservedContainerId
    /\ LET tr == trace'[e.uuid]
           rv == RevertPackets(e.data)
       IN  /\ Len(tr) = Len(trace[e.uuid]) + Len(rv)
                         + (IF last'.op = "take" THEN 1 ELSE 0)
           /\ SubSeq(tr, Len(tr) - Len(rv) + 1, Len(tr)) = rv

(* C12: an entry appears in the registry only in the step of the delayed
   open task, and an entry disappears only in the step of one teardown (click
   resolution or reserved-id close of its player) that reverts its anchor. *)
C12_EntryLifecycle ==
    [][/\ \A e \in runtime_forms' \ runtime_forms :
             /\ last'.op = "open_chest"
             /\ e = [uuid |-> last'.player, data |-> last'.data]
       /\ \A e \in runtime_forms \ runtime_forms' : TornDown(e)]_vars

ItemFields == {"Count", "Damage", "Name"}

(* C13: after set_slot on a valid index i the tag stored for i has Count,
   Damage and Name as configured and Slot = i mod 27, the tags of the other
   slots are as before, and on a fresh form every slot holds the empty tag,
   without Count, Damage or Name. *)
C13_SlotEncoding ==
    /\ [](last.op = "init" =>
            \A f \in Forms : \A i \in 0..(LayoutSize(forms[f]) - 1) :
                DOMAIN forms[f].ui_items[i] \cap ItemFields = {})
    /\ [][(last'.op = "set_slot"
             /\ last'.slot \in 0..(LayoutSize(forms[last'.form]) - 1)) =>
           LET i == last'.slot
               tag == forms'[last'.form].ui_items[i]
           IN  /\ ItemFields \subseteq DOMAIN tag
               /\ tag.Count = last'.args.item_amount
               /\ tag.Damage = last'.args.item_data
               /\ tag.Name = last'.args.item_type
               /\ tag.Slot = i % ChestSlots
               /\ \A j \in 0..(ReservedSlots - 1) \ {i} :
                     forms'[last'.form].ui_items[j] = forms[last'.form].ui_items[j]]_vars

(* a slot of the second block configured while a slot of the first block is
   still as constructed *)
C13_Witness ==
    /\ last.op = "set_slot"
    /\ last.slot >= ChestSlots
    /\ last.slot < LayoutSize(forms[last.form])
    /\ forms[last.form].ui_items[last.slot].Slot = last.slot - ChestSlots
    /\ forms[last.form].ui_items[last.slot].Count = last.args.item_amount
    /\ forms[last.form].ui_items[5] = EmptyDict

(* C14: handling an inbound payload that does not decode raises no error out
   of the handler, leaves the registry unchanged, sends no packet and
   schedules no callback. *)
C14_DecodeErrorIgnored ==
    [][last'.op = "undecoded" =>
        /\ ~last'.raised
        /\ UNCHANGED <<runtime_forms, trace, tasks, forms>>]_vars

(* C15: send_to anchors the chest at the player's block x and z and at the
   player's block y plus 4, or minus 3 when y plus 4 is above the ceiling of
   the player's dimension; the anchor is never above that ceiling. *)
C15_AnchorHeight ==
    [][last'.op = "send_to" =>
        LET loc == last'.location
            up == loc.block_y + 4
            ceiling == CASE loc.dimension = "OVERWORLD" -> 319
                         [] loc.dimension = "NETHER" -> 127
                         [] loc.dimension = "THE_END" -> 255
        IN  /\ last'.x = loc.block_x
            /\ last'.z = loc.block_z
            /\ last'.y = IF up > ceiling THEN loc.block_y - 3 ELSE up
            /\ last'.y <= ceiling
            /\ \E i \in 1..Len(tasks') :
                  /\ tasks'[i].task = "open_chest"
                  /\ <<tasks'[i].x, tasks'[i].y, tasks'[i].z>>
                        = <<last'.x, last'.y, last'.z>>]_vars

ChestBlock(pos) ==
    [id |-> "UpdateBlock", pos |-> pos, runtime_id |-> 741882976,
     flags |-> 3, layer |-> 0]

(* the encodings of the 27 slots from `base` on *)
SlotEncodings(form, base) == [i \in 1..27 |-> form.ui_items[base + i - 1]]

(* C16: send_to sends, for a double chest, the chest block at the anchor and
   at x + 1, then the block data of the anchor (pairlead true, slots 0..26)
   and of x + 1 (pairlead false, paired back to the anchor, slots 27..53);
   for a single chest, one chest block and one block data, at the anchor,
   with slots 0..26; and nothing else. *)
C16_PresentationPackets ==
    [][last'.op = "send_to" =>
        LET p == last'.player
            form == forms[last'.form]
            x == last'.x
            y == last'.y
            z == last'.z
            n == IF form.large_chest THEN 4 ELSE 2
            new == SubSeq(trace'[p], Len(trace[p]) + 1, Len(trace'[p]))
            lead == new[n \div 2 + 1]
        IN  /\ trace'[p] = trace[p] \o new
            /\ Len(new) = n
            /\ new[1] = ChestBlock(<<x, y, z>>)
            /\ lead.id = "BlockActorData"
            /\ lead.pos = <<x, y, z>>
            /\ lead.nbt.pairlead
            /\ <<lead.nbt.x, lead.nbt.y, lead.nbt.z>> = <<x, y, z>>
            /\ lead.nbt.Items = SlotEncodings(form, 0)
            /\ form.large_chest =>
                  /\ new[2] = ChestBlock(<<x + 1, y, z>>)
                  /\ new[4].id = "BlockActorData"
                  /\ new[4].pos = <<x + 1, y, z>>
                  /\ ~new[4].nbt.pairlead
                  /\ <<new[4].nbt.x, new[4].nbt.y, new[4].nbt.z>> = <<x + 1, y, z>>
                  /\ <<new[4].nbt.pairx, new[4].nbt.pairz>> = <<x, z>>
                  /\ new[4].nbt.Items = SlotEncodings(form, 27)]_vars

(* a double chest presented, with an item in its second block *)
C16_Witness ==
    /\ last.op = "send_to"
    /\ forms[last.form].large_chest
    /\ Len(trace[last.player]) = 4
    /\ \E i \in 1..27 : "Name" \in DOMAIN trace[last.player][4].nbt.Items[i]
    /\ trace[last.player][3].nbt.Items # trace[last.player][4].nbt.Items

(* the positions of the configured enchantments whose name is a key of the
   code table *)
Known(enchants) ==
    {k \in 1..Len(enchants) : enchants[k][1] \in DOMAIN ENCHANTMENTS_MAP}

(* C17: the "ench" list of a slot configured with enchantments holds one
   entry, with the table's id and the configured level, for each name that
   is a key of the code table, in the order given, and no entry for any other
   name. *)
C17_EnchantmentCodes ==
    [][(last'.op = "set_slot" /\ last'.args.enchants # <<>>) =>
        LET enchants == last'.args.enchants
            tag == forms'[last'.form].ui_items[last'.slot]
        IN  /\ "tag" \in DOMAIN tag
            /\ "ench" \in DOMAIN tag.tag
            /\ Len(tag.tag.ench) = Cardinality(Known(enchants))
            /\ \A k \in Known(enchants) :
                  LET n == Cardinality({j \in Known(enchants) : j <= k})
                  IN  /\ tag.tag.ench[n].id = ENCHANTMENTS_MAP[enchants[k][1]]
                      /\ tag.tag.ench[n].lvl = enchants[k][2]]_vars

(* "sharpness" at level 3 next to a name the table does not have *)
C17_Witness ==
    /\ last.op = "set_slot"
    /\ last.args.enchants = <<<<"sharpness", 3>>, <<"bogus", 1>>>>
    /\ forms[last.form].ui_items[last.slot].tag.ench = <<[id |-> 9, lvl |-> 3]>>

IsChest(packet) ==
    packet.id = "UpdateBlock" /\ packet.runtime_id = 741882976

OpenPending(p) ==
    \E i \in 1..Len(tasks) : tasks[i].task = "open_chest" /\ tasks[i].player = p

(* every chest block sent in tr is followed by a real block at its position *)
AllReverted(tr) ==
    \A k \in 1..Len(tr) :
        IsChest(tr[k]) =>
            \E j \in (k + 1)..Len(tr) :
                /\ tr[j].id = "UpdateBlock"
                /\ tr[j].pos = tr[k].pos
                /\ tr[j].runtime_id = get_block_at(tr[j].pos[1], tr[j].pos[2], tr[j].pos[3])

(* C18: when a player has no entry and no pending open task, every position
   that was sent the chest block has since been sent its real block. *)
C18_NoChestLeftBehind ==
    \A p \in Players :
        (~HasEntry(runtime_forms, p) /\ ~OpenPending(p)) => AllReverted(trace[p])

(* the latest block sent in tr for the position pos is the chest block *)
ShowsChest(tr, pos) ==
    \E k \in 1..Len(tr) :
        /\ IsChest(tr[k])
        /\ tr[k].pos = pos
        /\ \A j \in (k + 1)..Len(tr) :
              (tr[j].id = "UpdateBlock" /\ tr[j].pos = pos) => IsChest(tr[j])

(* C19: when the open task sends the open packet and registers the entry,
   the chest block sent for the entry's anchor has not been reverted since. *)
C19_OpenOnSubstitutedAnchor ==
    last.op = "open_chest" =>
        /\ HasEntry(runtime_forms, last.player)
        /\ ShowsChest(trace[last.player], <<last.data.x, last.data.y, last.data.z>>)

(* C20: the packet handlers and the scheduled tasks leave every form as it
   is; without configuration calls the forms stay as they were configured,
   so that every presentation of a form carries the configured title and slot
   contents and every callback run is the configured one. *)
C20_FormsUntouched ==
    /\ [][last'.op \in {"take", "close", "open_chest", "callback"}
             => forms' = forms]_vars
    /\ [](/\ forms = ConfiguredForms
          /\ \A p \in Players : \A k \in 1..Len(trace[p]) :
                /\ trace[p][k].id = "Callback" =>
                      \E f \in Forms :
                          /\ trace[p][k].index \in DOMAIN ConfiguredForms[f].call_backs
                          /\ trace[p][k].callback
                                = ConfiguredForms[f].call_backs[trace[p][k].index]
                /\ trace[p][k].id = "BlockActorData" =>
                      \E f \in Forms :
                          /\ trace[p][k].nbt.CustomName = ConfiguredForms[f].title
                          /\ trace[p][k].nbt.Items
                                = SlotEncodings(ConfiguredForms[f],
                                                IF trace[p][k].nbt.pairlead THEN 0 ELSE 27))

(* a form presented, torn down by a click, presented again with the same
   packets and clicked again *)
C20_Witness ==
    /\ last.op = "take"
    /\ last.had_entry
    /\ last.clicks # <<>>
    /\ LET tr == trace[last.player]
           leads == Leads(tr)
       IN  /\ Cardinality(Indices(tr, "ContainerClose")) = 2
           /\ Cardinality(leads) = 2
           /\ \A j, k \in leads : tr[j] = tr[k]
           /\ \E k \in Indices(tr, "Callback") : tr[k].index = last.clicks[1]

====
